---- MODULE Spec2Model ----
(***************************************************************************)
(* Model of app/src/lib/git/branch.ts: createBranch, renameBranch,         *)
(* deleteLocalBranch, deleteBranch, getBranchesPointedAt and               *)
(* getMergedBranches.  One invocation runs at a time; every await of the   *)
(* source is one step, so that other callers working on the same           *)
(* repository can interleave between two awaits.  The collaborators (git,  *)
(* getBranches, deleteRef, gitNetworkArguments, getRemoteURL,              *)
(* envForRemoteOperation) answer nondeterministically.                     *)
(***************************************************************************)
EXTENDS Integers, Sequences, FiniteSets, TLC

\* ------------------------------------------------------------------------
\* Bounds
\* ------------------------------------------------------------------------
\* longest stdout text handed back for --points-at
MaxStdout == 4
\* most lines handed back for --merged
MaxLines == 3

\* ------------------------------------------------------------------------
\* Values
\* ------------------------------------------------------------------------
\* the null of string-typed values (startPoint, remote, account, gitError)
NULL == "<null>"

\* string helpers, as String.prototype.startsWith and String.prototype.split
StartsWith(s, p) == Len(s) >= Len(p) /\ SubSeq(s, 1, Len(p)) = p

RECURSIVE IndexOf(_, _, _)
IndexOf(s, c, i) ==
  IF i > Len(s) THEN 0
  ELSE IF SubSeq(s, i, i) = c THEN i
  ELSE IndexOf(s, c, i + 1)

RECURSIVE Split(_, _)
Split(s, sep) ==
  LET i == IndexOf(s, sep, 1) IN
  IF i = 0 THEN <<s>>
  ELSE <<SubSeq(s, 1, i - 1)>> \o Split(SubSeq(s, i + 1, Len(s)), sep)

\* Array.prototype.slice(0, -1)
SliceDropLast(a) == IF Len(a) = 0 THEN <<>> ELSE SubSeq(a, 1, Len(a) - 1)

RECURSIVE Strings(_, _)
Strings(alphabet, n) ==
  IF n = 0 THEN {""}
  ELSE LET shorter == Strings(alphabet, n - 1) IN
       shorter \cup {s \o c : s \in shorter, c \in alphabet}

\* ------------------------------------------------------------------------
\* Inputs
\* ------------------------------------------------------------------------
BranchNames == {"f", "g"}
RemoteNames == {"origin"}
Accounts == {NULL, "acct"}
StartPoints == {NULL, "main", "remotes/origin/f", "remotes", "remote/f",
                "refs/remotes/origin/f", "origin/f"}
Commitishes == {"HEAD"}

LocalBranch(n, r) ==
  [name |-> n, nameWithoutRemote |-> n, type |-> "Local", remote |-> r]
RemoteBranch(r, n) ==
  [name |-> r \o "/" \o n, nameWithoutRemote |-> n, type |-> "Remote",
   remote |-> r]
NoBranch == [name |-> "", nameWithoutRemote |-> "", type |-> "Local",
             remote |-> NULL]
Branches ==
  {LocalBranch(n, r) : n \in BranchNames, r \in RemoteNames \cup {NULL}}
    \cup {RemoteBranch(r, n) : r \in RemoteNames, n \in BranchNames}

RefUniverse ==
  {"refs/heads/" \o n : n \in BranchNames}
    \cup {"refs/remotes/" \o r \o "/" \o n : r \in RemoteNames, n \in BranchNames}

NoInput == [name |-> "", startPoint |-> NULL, branch |-> NoBranch,
            account |-> NULL, includeRemote |-> FALSE, newName |-> "",
            commitish |-> ""]
NoEnv == [account |-> NULL, url |-> NULL]
NoResult == [exitCode |-> 0, gitError |-> NULL, stdout |-> ""]

\* results of an invocation
Pending == [kind |-> "pending"]
Threw(e) == [kind |-> "threw", error |-> e]
Returned(v) == [kind |-> "returned", value |-> v]
NullValue == [tag |-> "null"]
TrueValue == [tag |-> "true"]
BranchValue(b) == [tag |-> "Branch", branch |-> b]
ArrayValue(a) == [tag |-> "Array", items |-> a]

VARIABLES refs, op, pc, input, networkArguments, remoteUrl, env, gitResult,
          calls, result

vars == <<refs, op, pc, input, networkArguments, remoteUrl, env, gitResult,
          calls, result>>

\* one entry of the invocation's trace of collaborator calls
Call(fn, name, args, e, exit, out) ==
  [fn |-> fn, name |-> name, args |-> args, env |-> e, exit |-> exit,
   out |-> out]

Init ==
  /\ refs \in SUBSET RefUniverse
  /\ op = "idle"
  /\ pc = "idle"
  /\ input = NoInput
  /\ networkArguments = <<>>
  /\ remoteUrl = NULL
  /\ env = NoEnv
  /\ gitResult = NoResult
  /\ calls = <<>>
  /\ result = Pending

\* a caller starts an invocation: no collaborator has been called yet
Begin(o, at, in) ==
  /\ op = "idle"
  /\ op' = o
  /\ pc' = at
  /\ input' = in
  /\ networkArguments' = <<>>
  /\ remoteUrl' = NULL
  /\ env' = NoEnv
  /\ gitResult' = NoResult
  /\ calls' = <<>>
  /\ result' = Pending
  /\ UNCHANGED refs

\* the invocation ends by throwing e / by returning v
Throw(e) == pc' = "done" /\ result' = Threw(e)
Return(v) == pc' = "done" /\ result' = Returned(v)
Goto(at) == pc' = at /\ result' = result

\* the caller takes the settled promise: the invocation and its locals are gone
Settle ==
  /\ pc = "done"
  /\ op' = "idle"
  /\ pc' = "idle"
  /\ input' = NoInput
  /\ networkArguments' = <<>>
  /\ remoteUrl' = NULL
  /\ env' = NoEnv
  /\ gitResult' = NoResult
  /\ calls' = <<>>
  /\ result' = Pending
  /\ UNCHANGED refs

\* ------------------------------------------------------------------------
\* Command gateway: git(args, path, name, options)
\* ------------------------------------------------------------------------
\* what the git process can answer
GitExits == {0, 1, 128, 129}
ProcessResult(exitCode, gitError, stdout) ==
  [exitCode |-> exitCode, gitError |-> gitError, stdout |-> stdout]

\* options a caller leaves out
defaultSuccessExitCodes == {0}
defaultExpectedErrors == {}

\* git() hands the result back when the exit code is one the caller accepts
\* or the classified error is one the caller expects, and throws otherwise
GitReturns(r, accepted, expected) ==
  \/ r.exitCode \in accepted
  \/ r.gitError # NULL /\ r.gitError \in expected

\* the error git() throws for a result it does not hand back
GitErrorOf(r) == IF r.gitError # NULL THEN r.gitError ELSE "GitError"

\* how a call that handed back r is recorded in the trace
OutOf(r) == IF r.gitError # NULL THEN r.gitError ELSE "ok"

\* ------------------------------------------------------------------------
\* deleteLocalBranch
\* ------------------------------------------------------------------------
LocalDeleteResults ==
  {ProcessResult(0, NULL, ""), ProcessResult(1, NULL, "")}

\* git branch -D <branchName>: exit 0 removes refs/heads/<branchName>
GitBranchDelete(branchName, r) ==
  /\ r \in LocalDeleteResults
  /\ r.exitCode = 0 => ("refs/heads/" \o branchName) \in refs
  /\ calls' = Append(calls, Call("git", "deleteLocalBranch",
                 <<"branch", "-D", branchName>>, NoEnv, r.exitCode,
                 IF GitReturns(r, defaultSuccessExitCodes, defaultExpectedErrors)
                 THEN OutOf(r) ELSE GitErrorOf(r)))
  /\ refs' = IF r.exitCode = 0 THEN refs \ {"refs/heads/" \o branchName}
             ELSE refs

deleteLocalBranch_call(branchName) ==
  /\ branchName \in BranchNames
  /\ Begin("deleteLocalBranch", "L69", [NoInput EXCEPT !.name = branchName])

deleteLocalBranch_L69(r) ==
  /\ op = "deleteLocalBranch" /\ pc = "L69"
  /\ GitBranchDelete(input.name, r)
  /\ IF GitReturns(r, defaultSuccessExitCodes, defaultExpectedErrors)
     THEN Return(TrueValue)
     ELSE Throw(GitErrorOf(r))
  /\ UNCHANGED <<op, input, networkArguments, remoteUrl, env, gitResult>>

\* ------------------------------------------------------------------------
\* deleteBranch
\* ------------------------------------------------------------------------
\* variant: the local deletion is skipped when the remote is deleted too
deletesLocally_unlessRemote(branch, includeRemote) ==
  branch.type = "Local" /\ ~(includeRemote /\ branch.remote # NULL)

\* variant: the local deletion is issued for every branch
deletesLocally_anyType(branch, includeRemote) == TRUE

\* line 83: the local deletion is for Local branches
deletesLocally(branch, includeRemote) == branch.type = "Local"

\* variant: includeRemote is not looked at
touchesRemote_ignoreFlag(branch, includeRemote) ==
  branch.remote # NULL /\ branch.remote # ""

\* line 89: the remote is touched when asked for and the branch has one
touchesRemote(branch, includeRemote) ==
  includeRemote /\ branch.remote # NULL /\ branch.remote # ""

\* variant: authentication failures are expected as well
expectedErrors_withAuth ==
  {"BranchDeletionFailed", "HTTPSAuthenticationFailed"}

\* line 111
expectedErrors == {"BranchDeletionFailed"}

\* variant: the tracking ref is removed after every push handed back
needsReconcile_always(gitError) == TRUE

\* line 118
needsReconcile(gitError) == gitError = "BranchDeletionFailed"

\* variant: the ref is built from the full name of the branch
trackingRef_fullName(remoteName, branch) ==
  "refs/remotes/" \o remoteName \o "/" \o branch.name

\* line 119
trackingRef(remoteName, branch) ==
  "refs/remotes/" \o remoteName \o "/" \o branch.nameWithoutRemote

\* lines 100-105
pushArgs(netArgs, remoteName, branch) ==
  netArgs \o <<"push", remoteName, ":" \o branch.nameWithoutRemote>>

\* getFallbackUrlForProxyResolve(account, repository)
getFallbackUrlForProxyResolve(account) ==
  IF account = NULL THEN "https://fallback" ELSE "https://fallback/" \o account

\* envForRemoteOperation(account, remoteUrl), when it resolves
envForRemoteOperation(account, url) == [account |-> account, url |-> url]

\* lines 87-89 and 124: what follows the local step
afterLocal ==
  IF touchesRemote(input.branch, input.includeRemote)
  THEN Goto("L90")
  ELSE Return(TrueValue)

deleteBranch_call(branch, account, includeRemote) ==
  /\ branch \in Branches /\ account \in Accounts
  /\ Begin("deleteBranch", "L83",
           [NoInput EXCEPT !.branch = branch, !.account = account,
                           !.includeRemote = includeRemote])

\* line 83 for a branch that is not deleted locally
deleteBranch_L83 ==
  /\ op = "deleteBranch" /\ pc = "L83"
  /\ ~deletesLocally(input.branch, input.includeRemote)
  /\ afterLocal
  /\ UNCHANGED <<refs, op, input, networkArguments, remoteUrl, env, gitResult,
               calls>>

\* variant: a failed local deletion does not stop the remote steps
deleteBranch_L84_continue(r) ==
  /\ op = "deleteBranch" /\ pc = "L83"
  /\ deletesLocally(input.branch, input.includeRemote)
  /\ GitBranchDelete(input.branch.name, r)
  /\ afterLocal
  /\ UNCHANGED <<op, input, networkArguments, remoteUrl, env, gitResult>>

\* line 84: await deleteLocalBranch(repository, branch.name)
deleteBranch_L84(r) ==
  /\ op = "deleteBranch" /\ pc = "L83"
  /\ deletesLocally(input.branch, input.includeRemote)
  /\ GitBranchDelete(input.branch.name, r)
  /\ IF GitReturns(r, defaultSuccessExitCodes, defaultExpectedErrors)
     THEN afterLocal
     ELSE Throw(GitErrorOf(r))
  /\ UNCHANGED <<op, input, networkArguments, remoteUrl, env, gitResult>>

NetworkArguments == {<<"-c", "credential.helper=">>,
                     <<"-c", "credential.helper=", "-c", "protocol.version=2">>}

\* line 90: await gitNetworkArguments(repository, account)
deleteBranch_L90(ok, netArgs) ==
  /\ op = "deleteBranch" /\ pc = "L90"
  /\ netArgs \in NetworkArguments
  /\ calls' = Append(calls, Call("gitNetworkArguments", "", <<input.account>>,
                                 NoEnv, 0, IF ok THEN "ok" ELSE "Error"))
  /\ IF ok
     THEN networkArguments' = netArgs /\ Goto("L92")
     ELSE networkArguments' = networkArguments /\ Throw("Error")
  /\ UNCHANGED <<refs, op, input, remoteUrl, env, gitResult>>

\* what getRemoteURL can settle with: a url, null, or a rejection
RemoteURLAnswers == {"https://host/repo.git", NULL, "rejected"}

\* lines 91-98: the rejection is caught and mapped to null, and null falls
\* back to getFallbackUrlForProxyResolve
resolveRemoteUrl(answer, account) ==
  LET caught == IF answer = "rejected" THEN NULL ELSE answer IN
  IF caught # NULL /\ caught # "" THEN caught
  ELSE getFallbackUrlForProxyResolve(account)

\* variant: the rejection of getRemoteURL is not caught
deleteBranch_L92_noCatch(answer) ==
  /\ op = "deleteBranch" /\ pc = "L92"
  /\ answer \in RemoteURLAnswers
  /\ calls' = Append(calls, Call("getRemoteURL", "", <<input.branch.remote>>,
                                 NoEnv, 0, IF answer = "rejected" THEN "Error"
                                           ELSE IF answer = NULL THEN "null"
                                           ELSE "ok"))
  /\ IF answer = "rejected"
     THEN remoteUrl' = remoteUrl /\ Throw("Error")
     ELSE remoteUrl' = resolveRemoteUrl(answer, input.account) /\ Goto("L110")
  /\ UNCHANGED <<refs, op, input, networkArguments, env, gitResult>>

deleteBranch_L92(answer) ==
  /\ op = "deleteBranch" /\ pc = "L92"
  /\ answer \in RemoteURLAnswers
  /\ calls' = Append(calls, Call("getRemoteURL", "", <<input.branch.remote>>,
                                 NoEnv, 0, IF answer = "rejected" THEN "Error"
                                        ELSE IF answer = NULL THEN "null"
                                        ELSE "ok"))
  /\ remoteUrl' = resolveRemoteUrl(answer, input.account)
  /\ Goto("L110")
  /\ UNCHANGED <<refs, op, input, networkArguments, env, gitResult>>

\* line 110: await envForRemoteOperation(account, remoteUrl)
deleteBranch_L110(ok) ==
  /\ op = "deleteBranch" /\ pc = "L110"
  /\ calls' = Append(calls, Call("envForRemoteOperation", "",
                                 <<input.account, remoteUrl>>, NoEnv, 0,
                                 IF ok THEN "ok" ELSE "Error"))
  /\ IF ok
     THEN env' = envForRemoteOperation(input.account, remoteUrl) /\ Goto("L109")
     ELSE env' = env /\ Throw("Error")
  /\ UNCHANGED <<refs, op, input, networkArguments, remoteUrl, gitResult>>

PushResults ==
  {ProcessResult(0, NULL, ""),
   ProcessResult(1, "BranchDeletionFailed", ""),
   ProcessResult(128, "HTTPSAuthenticationFailed", ""),
   ProcessResult(128, NULL, "")}

\* variant: a push that failed is tried once more
deleteBranch_L109_retry(r) ==
  /\ op = "deleteBranch" /\ pc = "L109"
  /\ r \in PushResults
  /\ calls' = Append(calls, Call("git", "deleteRemoteBranch",
                 pushArgs(networkArguments, input.branch.remote, input.branch),
                 env, r.exitCode,
                 IF GitReturns(r, defaultSuccessExitCodes, expectedErrors)
                 THEN OutOf(r) ELSE GitErrorOf(r)))
  /\ refs' = IF r.exitCode = 0
             THEN refs \ {"refs/remotes/" \o input.branch.remote \o "/"
                            \o input.branch.nameWithoutRemote}
             ELSE refs
  /\ IF GitReturns(r, defaultSuccessExitCodes, expectedErrors)
     THEN IF needsReconcile(r.gitError) THEN Goto("L120")
          ELSE Return(TrueValue)
     ELSE IF calls = <<>> \/ calls[Len(calls)].name # "deleteRemoteBranch"
          THEN Goto("L109")
          ELSE Throw(GitErrorOf(r))
  /\ gitResult' = IF GitReturns(r, defaultSuccessExitCodes, expectedErrors)
                  THEN r ELSE gitResult
  /\ UNCHANGED <<op, input, networkArguments, remoteUrl, env>>

\* lines 109-112 and 118: await git(args, ..., 'deleteRemoteBranch', ...);
\* a push that exits 0 also removes the remote-tracking ref
deleteBranch_L109(r) ==
  /\ op = "deleteBranch" /\ pc = "L109"
  /\ r \in PushResults
  /\ calls' = Append(calls, Call("git", "deleteRemoteBranch",
                 pushArgs(networkArguments, input.branch.remote, input.branch),
                 env, r.exitCode,
                 IF GitReturns(r, defaultSuccessExitCodes, expectedErrors)
                 THEN OutOf(r) ELSE GitErrorOf(r)))
  /\ refs' = IF r.exitCode = 0
             THEN refs \ {"refs/remotes/" \o input.branch.remote \o "/"
                            \o input.branch.nameWithoutRemote}
             ELSE refs
  /\ IF GitReturns(r, defaultSuccessExitCodes, expectedErrors)
     THEN IF needsReconcile(r.gitError) THEN Goto("L120")
          ELSE Return(TrueValue)
     ELSE Throw(GitErrorOf(r))
  /\ gitResult' = IF GitReturns(r, defaultSuccessExitCodes, expectedErrors)
                  THEN r ELSE gitResult
  /\ UNCHANGED <<op, input, networkArguments, remoteUrl, env>>

\* variant: a failed deleteRef is ignored
deleteBranch_L120_ignoreFailure(ok) ==
  /\ op = "deleteBranch" /\ pc = "L120"
  /\ LET ref == trackingRef(input.branch.remote, input.branch) IN
     /\ calls' = Append(calls, Call("deleteRef", "", <<ref>>, NoEnv, 0,
                                    IF ok THEN "ok" ELSE "GitError"))
     /\ refs' = IF ok THEN refs \ {ref} ELSE refs
  /\ Return(TrueValue)
  /\ UNCHANGED <<op, input, networkArguments, remoteUrl, env, gitResult>>

\* line 120: await deleteRef(repository, ref)
deleteBranch_L120(ok) ==
  /\ op = "deleteBranch" /\ pc = "L120"
  /\ LET ref == trackingRef(input.branch.remote, input.branch) IN
     /\ calls' = Append(calls, Call("deleteRef", "", <<ref>>, NoEnv, 0,
                                    IF ok THEN "ok" ELSE "GitError"))
     /\ refs' = IF ok THEN refs \ {ref} ELSE refs
  /\ IF ok THEN Return(TrueValue) ELSE Throw("GitError")
  /\ UNCHANGED <<op, input, networkArguments, remoteUrl, env, gitResult>>

\* ------------------------------------------------------------------------
\* createBranch
\* ------------------------------------------------------------------------
\* variant: the prefix tested is that of a canonical ref
createArgs_canonicalPrefix(name, startPoint) ==
  LET args == IF startPoint # NULL THEN <<"branch", name, startPoint>>
              ELSE <<"branch", name>> IN
  IF startPoint # NULL /\ StartsWith(startPoint, "refs/remotes/")
  THEN Append(args, "--no-track")
  ELSE args

\* lines 29-37
createArgs(name, startPoint) ==
  LET args == IF startPoint # NULL THEN <<"branch", name, startPoint>>
              ELSE <<"branch", name>> IN
  IF startPoint # NULL /\ StartsWith(startPoint, "remotes/")
  THEN Append(args, "--no-track")
  ELSE args

\* variant: a single listed branch is not returned
firstOrNull_offByOne(branches) ==
  IF Len(branches) > 1 THEN BranchValue(branches[1]) ELSE NullValue

\* lines 41-45
firstOrNull(branches) ==
  IF Len(branches) > 0 THEN BranchValue(branches[1]) ELSE NullValue

\* getBranches(repository, pattern): the branches of the refs that match the
\* pattern completely or from the beginning up to a slash, in ref order
BranchOrder == <<"f", "g">>
Matches(ref, pattern) == ref = pattern \/ StartsWith(ref, pattern \o "/")
IsListed(n, pattern) ==
  ("refs/heads/" \o n) \in refs /\ Matches("refs/heads/" \o n, pattern)

getBranches(pattern) ==
  LET listed == SelectSeq(BranchOrder, LAMBDA n : IsListed(n, pattern))
  IN [i \in 1..Len(listed) |-> LocalBranch(listed[i], NULL)]

CreateResults == {ProcessResult(0, NULL, ""), ProcessResult(128, NULL, "")}

createBranch_call(name, startPoint) ==
  /\ name \in BranchNames /\ startPoint \in StartPoints
  /\ Begin("createBranch", "L39",
           [NoInput EXCEPT !.name = name, !.startPoint = startPoint])

\* line 39: await git(args, repository.path, 'createBranch');
\* git branch <name> exits 0 only for a name not taken, and adds the ref
createBranch_L39(r) ==
  /\ op = "createBranch" /\ pc = "L39"
  /\ r \in CreateResults
  /\ r.exitCode = 0 => ("refs/heads/" \o input.name) \notin refs
  /\ calls' = Append(calls, Call("git", "createBranch",
                 createArgs(input.name, input.startPoint), NoEnv, r.exitCode,
                 IF GitReturns(r, defaultSuccessExitCodes, defaultExpectedErrors)
                 THEN OutOf(r) ELSE GitErrorOf(r)))
  /\ refs' = IF r.exitCode = 0 THEN refs \cup {"refs/heads/" \o input.name}
             ELSE refs
  /\ IF GitReturns(r, defaultSuccessExitCodes, defaultExpectedErrors)
     THEN Goto("L40")
     ELSE Throw(GitErrorOf(r))
  /\ UNCHANGED <<op, input, networkArguments, remoteUrl, env, gitResult>>

\* lines 40-45: await getBranches(repository, `refs/heads/${name}`)
createBranch_L40(ok) ==
  /\ op = "createBranch" /\ pc = "L40"
  /\ calls' = Append(calls, Call("getBranches", "",
                 <<"refs/heads/" \o input.name>>, NoEnv, 0,
                 IF ok THEN "ok" ELSE "GitError"))
  /\ IF ok
     THEN Return(firstOrNull(getBranches("refs/heads/" \o input.name)))
     ELSE Throw("GitError")
  /\ UNCHANGED <<refs, op, input, networkArguments, remoteUrl, env, gitResult>>

\* ------------------------------------------------------------------------
\* renameBranch
\* ------------------------------------------------------------------------
RenameResults == {ProcessResult(0, NULL, ""), ProcessResult(128, NULL, "")}

renameBranch_call(branch, newName) ==
  /\ branch \in Branches /\ newName \in BranchNames
  /\ Begin("renameBranch", "L54",
           [NoInput EXCEPT !.branch = branch, !.newName = newName])

\* lines 54-58: git branch -m <nameWithoutRemote> <newName> exits 0 only when
\* the branch exists and the new name is free, and moves the ref
renameBranch_L54(r) ==
  /\ op = "renameBranch" /\ pc = "L54"
  /\ r \in RenameResults
  /\ LET old == "refs/heads/" \o input.branch.nameWithoutRemote
         new == "refs/heads/" \o input.newName IN
     /\ r.exitCode = 0 => old \in refs /\ (new \notin refs \/ new = old)
     /\ refs' = IF r.exitCode = 0 THEN (refs \ {old}) \cup {new} ELSE refs
  /\ calls' = Append(calls, Call("git", "renameBranch",
                 <<"branch", "-m", input.branch.nameWithoutRemote,
                   input.newName>>, NoEnv, r.exitCode,
                 IF GitReturns(r, defaultSuccessExitCodes, defaultExpectedErrors)
                 THEN OutOf(r) ELSE GitErrorOf(r)))
  /\ IF GitReturns(r, defaultSuccessExitCodes, defaultExpectedErrors)
     THEN Return([tag |-> "void"])
     ELSE Throw(GitErrorOf(r))
  /\ UNCHANGED <<op, input, networkArguments, remoteUrl, env, gitResult>>

\* ------------------------------------------------------------------------
\* getBranchesPointedAt
\* ------------------------------------------------------------------------
\* variant: exit code 128 is accepted as well
successExitCodes_with128 == {0, 1, 128, 129}

\* line 152
successExitCodes == {0, 1, 129}

\* lines 138-142
pointsAtArgs(commitish) ==
  <<"branch", "--points-at=" \o commitish, "--format=%(refname:short)">>

\* variant: exit code 129 is parsed like exit code 0
pointedAtValue_only1(exitCode, stdout) ==
  IF exitCode = 1 THEN NullValue
  ELSE ArrayValue(SliceDropLast(Split(stdout, "\n")))

\* variant: the split is returned whole
pointedAtValue_keepTrailing(exitCode, stdout) ==
  IF exitCode = 1 \/ exitCode = 129 THEN NullValue
  ELSE ArrayValue(Split(stdout, "\n"))

\* variant: the last element is dropped only when it is empty
pointedAtValue_dropEmptyOnly(exitCode, stdout) ==
  IF exitCode = 1 \/ exitCode = 129 THEN NullValue
  ELSE LET parts == Split(stdout, "\n") IN
       IF parts[Len(parts)] = "" THEN ArrayValue(SliceDropLast(parts))
       ELSE ArrayValue(parts)

\* lines 155-159
pointedAtValue(exitCode, stdout) ==
  IF exitCode = 1 \/ exitCode = 129 THEN NullValue
  ELSE ArrayValue(SliceDropLast(Split(stdout, "\n")))

PointsAtStdouts == Strings({"a", "b", "\n"}, MaxStdout)
PointsAtResults ==
  {ProcessResult(e, NULL, out) : e \in GitExits, out \in PointsAtStdouts}

getBranchesPointedAt_call(commitish) ==
  /\ commitish \in Commitishes
  /\ Begin("getBranchesPointedAt", "L144",
           [NoInput EXCEPT !.commitish = commitish])

\* lines 144-159: await git(args, repository.path, 'branchPointedAt', ...)
getBranchesPointedAt_L144(r) ==
  /\ op = "getBranchesPointedAt" /\ pc = "L144"
  /\ r \in PointsAtResults
  /\ calls' = Append(calls, Call("git", "branchPointedAt",
                 pointsAtArgs(input.commitish), NoEnv, r.exitCode,
                 IF GitReturns(r, successExitCodes, defaultExpectedErrors)
                 THEN OutOf(r) ELSE GitErrorOf(r)))
  /\ IF GitReturns(r, successExitCodes, defaultExpectedErrors)
     THEN gitResult' = r /\ Return(pointedAtValue(r.exitCode, r.stdout))
     ELSE gitResult' = gitResult /\ Throw(GitErrorOf(r))
  /\ UNCHANGED <<refs, op, input, networkArguments, remoteUrl, env>>

\* the await of line 144 settles with one of the results of the backend
getBranchesPointedAt_await ==
  /\ pc = "L144"
  /\ \E r \in PointsAtResults : getBranchesPointedAt_L144(r)

\* ------------------------------------------------------------------------
\* getMergedBranches
\* ------------------------------------------------------------------------
\* stands for the NUL character of the --format separator %00
NUL == "\t"

\* formatAsLocalRef(branchName)
formatAsLocalRef(name) == "refs/heads/" \o name

\* lines 175-180
mergedArgs(branchName) ==
  <<"branch", "--format=%(objectname)%00%(refname)", "--merged", branchName>>

\* lines 183-186: split, then splice(-1, 1)
mergedLines(stdout) == SliceDropLast(Split(stdout, "\n"))

\* variant: the branch compared against is not left out
RECURSIVE mergedMap_keepBase(_, _, _)
mergedMap_keepBase(lines, canonicalBranchRef, map) ==
  IF lines = <<>> THEN map
  ELSE LET fields == Split(Head(lines), NUL)
           rest == Tail(lines) IN
       IF Len(fields) < 2
       THEN mergedMap_keepBase(rest, canonicalBranchRef, map)
       ELSE mergedMap_keepBase(rest, canonicalBranchRef,
                      [k \in DOMAIN map \cup {fields[2]} |->
                         IF k = fields[2] THEN fields[1] ELSE map[k]])

\* variant: key and value are exchanged in the set
RECURSIVE mergedMap_swapped(_, _, _)
mergedMap_swapped(lines, canonicalBranchRef, map) ==
  IF lines = <<>> THEN map
  ELSE LET fields == Split(Head(lines), NUL)
           rest == Tail(lines) IN
       IF Len(fields) < 2
       THEN mergedMap_swapped(rest, canonicalBranchRef, map)
       ELSE IF fields[2] = canonicalBranchRef
       THEN mergedMap_swapped(rest, canonicalBranchRef, map)
       ELSE mergedMap_swapped(rest, canonicalBranchRef,
                      [k \in DOMAIN map \cup {fields[1]} |->
                         IF k = fields[1] THEN fields[2] ELSE map[k]])

\* variant: a line without both fields ends the loop
RECURSIVE mergedMap_stopAtMalformed(_, _, _)
mergedMap_stopAtMalformed(lines, canonicalBranchRef, map) ==
  IF lines = <<>> THEN map
  ELSE LET fields == Split(Head(lines), NUL)
           rest == Tail(lines) IN
       IF Len(fields) < 2
       THEN map
       ELSE IF fields[2] = canonicalBranchRef
       THEN mergedMap_stopAtMalformed(rest, canonicalBranchRef, map)
       ELSE mergedMap_stopAtMalformed(rest, canonicalBranchRef,
                      [k \in DOMAIN map \cup {fields[2]} |->
                         IF k = fields[2] THEN fields[1] ELSE map[k]])

\* variant: a ref already in the map is not set again
RECURSIVE mergedMap_firstWins(_, _, _)
mergedMap_firstWins(lines, canonicalBranchRef, map) ==
  IF lines = <<>> THEN map
  ELSE LET fields == Split(Head(lines), NUL)
           rest == Tail(lines) IN
       IF Len(fields) < 2
       THEN mergedMap_firstWins(rest, canonicalBranchRef, map)
       ELSE IF fields[2] = canonicalBranchRef \/ fields[2] \in DOMAIN map
       THEN mergedMap_firstWins(rest, canonicalBranchRef, map)
       ELSE mergedMap_firstWins(rest, canonicalBranchRef,
                      [k \in DOMAIN map \cup {fields[2]} |->
                         IF k = fields[2] THEN fields[1] ELSE map[k]])

\* lines 187-205: the Map built from the lines, as a function from the
\* canonical refs to their shas; a later line overwrites an earlier one
RECURSIVE mergedMap(_, _, _)
mergedMap(lines, canonicalBranchRef, map) ==
  IF lines = <<>> THEN map
  ELSE LET fields == Split(Head(lines), NUL)
           rest == Tail(lines) IN
       IF Len(fields) < 2
       THEN mergedMap(rest, canonicalBranchRef, map)
       ELSE IF fields[2] = canonicalBranchRef
       THEN mergedMap(rest, canonicalBranchRef, map)
       ELSE mergedMap(rest, canonicalBranchRef,
                      [k \in DOMAIN map \cup {fields[2]} |->
                         IF k = fields[2] THEN fields[1] ELSE map[k]])

EmptyMap == [k \in {} |-> ""]
MapValue(m) == [tag |-> "Map", map |-> m]

\* the lines the backend can print, and the texts made of them
MergedLineTexts ==
  {"1" \o NUL \o "refs/heads/f", "2" \o NUL \o "refs/heads/g",
   "3" \o NUL \o "refs/heads/f", "4" \o NUL \o "refs/heads/h",
   "refs/heads/g", ""}

RECURSIVE MergedTexts(_)
MergedTexts(n) ==
  IF n = 0 THEN {""}
  ELSE LET shorter == MergedTexts(n - 1) IN
       shorter \cup {t \o l \o "\n" : t \in shorter, l \in MergedLineTexts}

MergedStdouts ==
  MergedTexts(MaxLines)
    \cup {t \o l : t \in MergedTexts(MaxLines - 2),
                   l \in MergedLineTexts \ {""}}

MergedResults ==
  {ProcessResult(0, NULL, out) : out \in MergedStdouts}
    \cup {ProcessResult(128, NULL, "")}

getMergedBranches_call(branchName) ==
  /\ branchName \in BranchNames
  /\ Begin("getMergedBranches", "L182", [NoInput EXCEPT !.name = branchName])

\* lines 182-205: await git(args, repository.path, 'mergedBranches')
getMergedBranches_L182(r) ==
  /\ op = "getMergedBranches" /\ pc = "L182"
  /\ r \in MergedResults
  /\ calls' = Append(calls, Call("git", "mergedBranches",
                 mergedArgs(input.name), NoEnv, r.exitCode,
                 IF GitReturns(r, defaultSuccessExitCodes, defaultExpectedErrors)
                 THEN OutOf(r) ELSE GitErrorOf(r)))
  /\ IF GitReturns(r, defaultSuccessExitCodes, defaultExpectedErrors)
     THEN /\ gitResult' = r
          /\ Return(MapValue(mergedMap(mergedLines(r.stdout),
                                       formatAsLocalRef(input.name), EmptyMap)))
     ELSE gitResult' = gitResult /\ Throw(GitErrorOf(r))
  /\ UNCHANGED <<refs, op, input, networkArguments, remoteUrl, env>>

\* the await of line 182 settles with one of the results of the backend
getMergedBranches_await ==
  /\ pc = "L182"
  /\ \E r \in MergedResults : getMergedBranches_L182(r)

\* ------------------------------------------------------------------------
\* Another caller on the same repository
\* ------------------------------------------------------------------------
\* a deleteLocalBranch of another caller completes between two awaits of
\* the invocation
otherCaller_deleteLocalBranch(branchName) ==
  /\ pc \notin {"idle", "done"}
  /\ ("refs/heads/" \o branchName) \in refs
  /\ refs' = refs \ {"refs/heads/" \o branchName}
  /\ UNCHANGED <<op, pc, input, networkArguments, remoteUrl, env, gitResult,
                 calls, result>>

\* ------------------------------------------------------------------------
\* Specification
\* ------------------------------------------------------------------------
Next ==
  \/ \E n \in BranchNames, sp \in StartPoints : createBranch_call(n, sp)
  \/ \E r \in CreateResults : createBranch_L39(r)
  \/ \E ok \in BOOLEAN : createBranch_L40(ok)
  \/ \E b \in Branches, n \in BranchNames : renameBranch_call(b, n)
  \/ \E r \in RenameResults : renameBranch_L54(r)
  \/ \E n \in BranchNames : deleteLocalBranch_call(n)
  \/ \E r \in LocalDeleteResults : deleteLocalBranch_L69(r)
  \/ \E b \in Branches, a \in Accounts, i \in BOOLEAN :
       deleteBranch_call(b, a, i)
  \/ deleteBranch_L83
  \/ \E r \in LocalDeleteResults : deleteBranch_L84(r)
  \/ \E ok \in BOOLEAN, na \in NetworkArguments : deleteBranch_L90(ok, na)
  \/ \E answer \in RemoteURLAnswers : deleteBranch_L92(answer)
  \/ \E ok \in BOOLEAN : deleteBranch_L110(ok)
  \/ \E r \in PushResults : deleteBranch_L109(r)
  \/ \E ok \in BOOLEAN : deleteBranch_L120(ok)
  \/ \E c \in Commitishes : getBranchesPointedAt_call(c)
  \/ getBranchesPointedAt_await
  \/ \E n \in BranchNames : getMergedBranches_call(n)
  \/ getMergedBranches_await
  \/ \E n \in BranchNames : otherCaller_deleteLocalBranch(n)
  \/ Settle

Spec == Init /\ [][Next]_vars

\* ------------------------------------------------------------------------
\* Properties of deleteBranch
\* ------------------------------------------------------------------------
IsLocalDelete(c) == c.fn = "git" /\ c.name = "deleteLocalBranch"
IsPush(c) == c.fn = "git" /\ c.name = "deleteRemoteBranch"
IsRefDelete(c) == c.fn = "deleteRef"
IsRemoteStep(c) ==
  c.fn \in {"gitNetworkArguments", "getRemoteURL", "envForRemoteOperation",
            "deleteRef"} \/ IsPush(c)
Indices(P(_)) == {i \in DOMAIN calls : P(calls[i])}

\* a push the gateway did not hand back: neither exit 0 nor classified as
\* "branch deletion failed"
IsFatalPush(c) ==
  IsPush(c) /\ c.exit # 0 /\ c.out # "BranchDeletionFailed"
IsGonePush(c) == IsPush(c) /\ c.out = "BranchDeletionFailed"

DeleteWithRemote ==
  /\ op = "deleteBranch"
  /\ input.includeRemote
  /\ input.branch.remote # NULL

\* C1: in delete with includeRemote on a branch with a remote, a push
\* classified "branch deletion failed" is followed by deleteRef on exactly
\* refs/remotes/<remote>/<nameWithoutRemote>, no other ref is deleted, and
\* when that deletion succeeds the invocation returns true.
C1_GonePushReconciles ==
  DeleteWithRemote =>
    \A i \in Indices(IsGonePush) :
      /\ \A j \in Indices(IsRefDelete) :
           calls[j].args = <<"refs/remotes/" \o input.branch.remote \o "/"
                               \o input.branch.nameWithoutRemote>>
      /\ pc = "done" =>
           /\ Len(calls) = i + 1
           /\ IsRefDelete(calls[i + 1])
           /\ calls[i + 1].out = "ok" => result = Returned(TrueValue)

C1_Witness ==
  /\ DeleteWithRemote /\ pc = "done"
  /\ input.branch.type = "Remote"
  /\ Indices(IsGonePush) # {}
  /\ IsRefDelete(calls[Len(calls)]) /\ calls[Len(calls)].out = "ok"
  /\ result = Returned(TrueValue)

\* C2: in delete with includeRemote on a branch with a remote, a push that
\* fails with anything but "branch deletion failed" ends the invocation with
\* that error: it is thrown, nothing is returned, deleteRef is never called.
C2_FatalPushPropagates ==
  DeleteWithRemote =>
    \A i \in Indices(IsFatalPush) :
      /\ pc = "done"
      /\ result = Threw(calls[i].out)
      /\ Indices(IsRefDelete) = {}

C2_Witness ==
  /\ DeleteWithRemote /\ pc = "done"
  /\ \E i \in Indices(IsFatalPush) : calls[i].out = "HTTPSAuthenticationFailed"
  /\ result = Threw("HTTPSAuthenticationFailed")

\* C3: delete returns true only if every applicable step completed: the
\* local deletion for a Local branch and, with includeRemote on a branch
\* with a remote, network arguments, environment, the push (exit 0 or
\* "branch deletion failed") and the reconciling deleteRef when triggered.
\* The only failed call in a successful invocation is getRemoteURL.
C3_SuccessOnlyAfterAllSteps ==
  (op = "deleteBranch" /\ result.kind = "returned") =>
    /\ result = Returned(TrueValue)
    /\ input.branch.type = "Local" =>
         \E i \in Indices(IsLocalDelete) : calls[i].exit = 0
    /\ DeleteWithRemote =>
         /\ \E i \in DOMAIN calls :
              calls[i].fn = "gitNetworkArguments" /\ calls[i].out = "ok"
         /\ \E i \in DOMAIN calls :
              calls[i].fn = "envForRemoteOperation" /\ calls[i].out = "ok"
         /\ \E i \in Indices(IsPush) :
              calls[i].exit = 0 \/ calls[i].out = "BranchDeletionFailed"
         /\ \A i \in Indices(IsGonePush) :
              \E j \in Indices(IsRefDelete) : j > i /\ calls[j].out = "ok"
    /\ \A i \in DOMAIN calls :
         \/ calls[i].out = "ok"
         \/ IsGonePush(calls[i])
         \/ calls[i].fn = "getRemoteURL"

C3_Witness ==
  /\ DeleteWithRemote /\ input.branch.type = "Local"
  /\ result = Returned(TrueValue)
  /\ \E i \in DOMAIN calls :
       calls[i].fn = "getRemoteURL" /\ calls[i].out = "Error"
  /\ Indices(IsGonePush) # {}
  /\ Len(calls) = 6

\* C4: in delete on a Local branch, a failed local deletion aborts the
\* invocation with that error, whatever includeRemote is: it is the only
\* call made, so no remote step follows.
C4_LocalFailureAborts ==
  (op = "deleteBranch" /\ input.branch.type = "Local") =>
    \A i \in Indices(IsLocalDelete) :
      calls[i].exit # 0 =>
        /\ pc = "done"
        /\ result = Threw(calls[i].out)
        /\ Len(calls) = 1
        /\ Indices(IsRemoteStep) = {}

C4_Witness ==
  /\ DeleteWithRemote /\ input.branch.type = "Local"
  /\ pc = "done"
  /\ Len(calls) = 1 /\ IsLocalDelete(calls[1]) /\ calls[1].exit # 0
  /\ result = Threw("GitError")

\* C5: in delete on a Local branch the forced local deletion (branch -D
\* <name>) is the first call, before any remote step, for every
\* includeRemote and with or without a remote; when the push then fails
\* fatally the local ref is gone and stays gone.
C5_LocalDeletionFirst ==
  (op = "deleteBranch" /\ input.branch.type = "Local") =>
    /\ pc # "L83" =>
         /\ Len(calls) >= 1
         /\ IsLocalDelete(calls[1])
         /\ calls[1].args = <<"branch", "-D", input.branch.name>>
    /\ Indices(IsLocalDelete) \subseteq {1}
    /\ Indices(IsFatalPush) # {} =>
         /\ calls[1].exit = 0
         /\ ("refs/heads/" \o input.branch.name) \notin refs

C5_Witness ==
  /\ op = "deleteBranch" /\ input.branch.type = "Local"
  /\ pc = "done"
  /\ Indices(IsFatalPush) # {}
  /\ result.kind = "threw"
  /\ ("refs/heads/" \o input.branch.name) \notin refs

\* C6: in delete with includeRemote on a branch with a remote, a rejected
\* getRemoteURL does not end the invocation: the next call is
\* envForRemoteOperation with the fallback url of account and repository,
\* and once the environment is resolved the push is executed with it.
C6_UrlFailureAbsorbed ==
  DeleteWithRemote =>
    \A i \in DOMAIN calls :
      (calls[i].fn = "getRemoteURL" /\ calls[i].out = "Error") =>
        /\ pc # "done" \/ Len(calls) > i
        /\ Len(calls) > i =>
             /\ calls[i + 1].fn = "envForRemoteOperation"
             /\ calls[i + 1].args =
                  <<input.account, getFallbackUrlForProxyResolve(input.account)>>
        /\ (Len(calls) > i /\ calls[i + 1].out = "ok") =>
             /\ pc # "done" \/ Len(calls) > i + 1
             /\ Len(calls) > i + 1 =>
                  /\ IsPush(calls[i + 2])
                  /\ calls[i + 2].env =
                       [account |-> input.account,
                        url |-> getFallbackUrlForProxyResolve(input.account)]

C6_Witness ==
  /\ DeleteWithRemote
  /\ \E i \in DOMAIN calls :
       /\ calls[i].fn = "getRemoteURL" /\ calls[i].out = "Error"
       /\ Len(calls) >= i + 2
       /\ IsPush(calls[i + 2])
       /\ calls[i + 2].env.url = getFallbackUrlForProxyResolve(input.account)

\* C7: within one invocation of delete the push is executed at most once,
\* and a push that fails fatally is the last call of the invocation, which
\* has ended with an error.
C7_NoRetry ==
  op = "deleteBranch" =>
    /\ Cardinality(Indices(IsPush)) <= 1
    /\ \A i \in Indices(IsFatalPush) :
         /\ i = Len(calls)
         /\ pc = "done"
         /\ result.kind = "threw"

C7_Witness ==
  /\ op = "deleteBranch" /\ pc = "done"
  /\ Cardinality(Indices(IsPush)) = 1
  /\ IsFatalPush(calls[Len(calls)])
  /\ calls[Len(calls)].out = "HTTPSAuthenticationFailed"

\* ------------------------------------------------------------------------
\* Properties of createBranch
\* ------------------------------------------------------------------------
IsCreate(c) == c.fn = "git" /\ c.name = "createBranch"
IsListing(c) == c.fn = "getBranches"
HasRemotesPrefix(sp) ==
  sp # NULL /\ Len(sp) >= 8 /\ SubSeq(sp, 1, 8) = "remotes/"
Elements(a) == {a[i] : i \in DOMAIN a}

\* C8: for every start point that begins with "remotes/", the creation
\* command issued by create carries --no-track.
C8_RemoteStartPointNotTracked ==
  (op = "createBranch" /\ HasRemotesPrefix(input.startPoint)) =>
    \A i \in Indices(IsCreate) :
      /\ "--no-track" \in Elements(calls[i].args)
      /\ SubSeq(calls[i].args, 1, 3) =
           <<"branch", input.name, input.startPoint>>

C8_Witness ==
  /\ op = "createBranch"
  /\ input.startPoint = "remotes/origin/f"
  /\ Indices(IsCreate) # {}
  /\ calls[1].args = <<"branch", input.name, "remotes/origin/f", "--no-track">>

\* C9: when the creation command succeeded, create asks getBranches for
\* refs/heads/<name> and returns the first branch listed, or null when none
\* is listed (also when another caller removed the ref in between): an
\* empty listing never makes create throw.
C9_RequeryFirstOrAbsent ==
  (op = "createBranch" /\ Indices(IsCreate) # {} /\ calls[1].exit = 0) =>
    /\ pc = "done" =>
         /\ Len(calls) = 2
         /\ IsListing(calls[2])
         /\ calls[2].args = <<"refs/heads/" \o input.name>>
    /\ (pc = "done" /\ calls[Len(calls)].out = "ok") =>
         LET listed == getBranches("refs/heads/" \o input.name) IN
         result = Returned(IF listed = <<>> THEN NullValue
                           ELSE BranchValue(Head(listed)))

C9_Witness ==
  /\ op = "createBranch" /\ pc = "done"
  /\ Len(calls) = 2 /\ calls[1].exit = 0 /\ calls[2].out = "ok"
  /\ ("refs/heads/" \o input.name) \notin refs
  /\ result = Returned(NullValue)

\* ------------------------------------------------------------------------
\* Properties of getBranchesPointedAt
\* ------------------------------------------------------------------------
\* C10: pointedAt returns null, not an empty sequence, when the backend
\* exits with 1 or 129, whatever stdout holds, and returns a sequence of
\* names, never null, when it exits with 0.
C10_AbsenceOn1And129 ==
  (op = "getBranchesPointedAt" /\ pc = "done") =>
    /\ calls[1].exit \in {1, 129} => result = Returned(NullValue)
    /\ calls[1].exit = 0 =>
         /\ result.kind = "returned"
         /\ result.value.tag = "Array"
         /\ result.value # NullValue
         /\ \A i \in DOMAIN result.value.items :
              result.value.items[i] \in PointsAtStdouts

C10_Witness ==
  /\ op = "getBranchesPointedAt" /\ pc = "done"
  /\ calls[1].exit = 129
  /\ gitResult.stdout = "a\n"
  /\ result = Returned(NullValue)


IsPointsAt(c) == c.fn = "git" /\ c.name = "branchPointedAt"

MergedReturned == op = "getMergedBranches" /\ result.kind = "returned"

\* the newline-terminated lines of a text, and the fields of a line
TerminatedLines(text) ==
  LET parts == Split(text, "\n") IN SubSeq(parts, 1, Len(parts) - 1)
HasSeparator(line) == IndexOf(line, NUL, 1) > 0
ShaOf(line) == Split(line, NUL)[1]
RefOf(line) == Split(line, NUL)[2]

\* C12: the map returned by mergedInto(repo, B) has no key refs/heads/B,
\* whatever the backend printed.
C12_BaseBranchExcluded ==
  MergedReturned =>
    ("refs/heads/" \o input.name) \notin DOMAIN result.value.map

C12_Witness ==
  /\ MergedReturned
  /\ LET lines == TerminatedLines(gitResult.stdout) IN
     /\ \E i \in DOMAIN lines :
          HasSeparator(lines[i]) /\ RefOf(lines[i]) = "refs/heads/" \o input.name
     /\ \E i \in DOMAIN lines :
          HasSeparator(lines[i]) /\ RefOf(lines[i]) # "refs/heads/" \o input.name
  /\ DOMAIN result.value.map # {}


\* a text of newline-terminated lines "<sha>NUL<ref>" with pairwise distinct
\* refs, none of them the canonical ref of the base branch
WellFormedDistinct(text, base) ==
  LET parts == Split(text, "\n")
      lines == TerminatedLines(text) IN
  /\ parts[Len(parts)] = ""
  /\ \A i \in DOMAIN lines :
       /\ Len(Split(lines[i], NUL)) = 2
       /\ RefOf(lines[i]) # "refs/heads/" \o base
  /\ \A i, j \in DOMAIN lines : i # j => RefOf(lines[i]) # RefOf(lines[j])

\* C13: for output made of k newline-terminated lines "<sha>NUL<ref>" with
\* pairwise distinct refs, none the canonical ref of the base branch, the
\* returned map has exactly k entries and maps each ref to the sha of its line.
C13_OneEntryPerLine ==
  (MergedReturned /\ WellFormedDistinct(gitResult.stdout, input.name)) =>
    LET lines == TerminatedLines(gitResult.stdout)
        map == result.value.map IN
    /\ Cardinality(DOMAIN map) = Len(lines)
    /\ DOMAIN map = {RefOf(lines[i]) : i \in DOMAIN lines}
    /\ \A i \in DOMAIN lines : map[RefOf(lines[i])] = ShaOf(lines[i])

C13_Witness ==
  /\ MergedReturned /\ WellFormedDistinct(gitResult.stdout, input.name)
  /\ Len(TerminatedLines(gitResult.stdout)) = 2
  /\ Cardinality(DOMAIN result.value.map) = 2


IsMerged(c) == c.fn = "git" /\ c.name = "mergedBranches"
MergedExitedZero ==
  /\ op = "getMergedBranches" /\ pc = "done"
  /\ Len(calls) = 1 /\ IsMerged(calls[1]) /\ calls[1].exit = 0

\* C14: in mergedInto a line without the NUL separator adds no entry and
\* does not stop the parsing: the call returns, every line with a separator
\* before or after it (other than the base branch's) has its ref in the map,
\* and every key of the map is the ref of a line with a separator.
C14_MalformedLineSkipped ==
  MergedExitedZero =>
    /\ result.kind = "returned"
    /\ LET lines == TerminatedLines(gitResult.stdout)
           map == result.value.map IN
       \A i \in DOMAIN lines :
         ~HasSeparator(lines[i]) =>
           /\ \A j \in DOMAIN lines :
                (HasSeparator(lines[j])
                   /\ RefOf(lines[j]) # "refs/heads/" \o input.name) =>
                  RefOf(lines[j]) \in DOMAIN map
           /\ \A k \in DOMAIN map :
                \E j \in DOMAIN lines \ {i} :
                  HasSeparator(lines[j]) /\ RefOf(lines[j]) = k

C14_Witness ==
  /\ MergedExitedZero /\ result.kind = "returned"
  /\ LET lines == TerminatedLines(gitResult.stdout) IN
     \E i, j, k \in DOMAIN lines :
       /\ i < j /\ j < k
       /\ HasSeparator(lines[i]) /\ ~HasSeparator(lines[j])
       /\ HasSeparator(lines[k])
       /\ lines[j] # ""
       /\ RefOf(lines[i]) # RefOf(lines[k])
       /\ {RefOf(lines[i]), RefOf(lines[k])} \subseteq DOMAIN result.value.map


\* ------------------------------------------------------------------------
\* More properties of getBranchesPointedAt
\* ------------------------------------------------------------------------
PointsAtExitedZero ==
  /\ op = "getBranchesPointedAt" /\ pc = "done"
  /\ Len(calls) = 1 /\ IsPointsAt(calls[1]) /\ calls[1].exit = 0

\* the text made of the names, each followed by a newline
RECURSIVE Terminated(_)
Terminated(names) ==
  IF names = <<>> THEN ""
  ELSE Head(names) \o "\n" \o Terminated(Tail(names))

EndsWithNewline(text) ==
  Len(text) > 0 /\ SubSeq(text, Len(text), Len(text)) = "\n"

\* C15: on exit code 0, for stdout made of n names each followed by a
\* newline pointedAt returns exactly those n names in output order (the
\* empty line after the last newline is dropped), and for empty stdout the
\* empty sequence.
C15_TerminatedNamesReturned ==
  (PointsAtExitedZero
     /\ (gitResult.stdout = "" \/ EndsWithNewline(gitResult.stdout))) =>
    /\ result.kind = "returned"
    /\ result.value.tag = "Array"
    /\ Terminated(result.value.items) = gitResult.stdout
    /\ \A i \in DOMAIN result.value.items :
         IndexOf(result.value.items[i], "\n", 1) = 0
    /\ gitResult.stdout = "" => result.value.items = <<>>

C15_Witness ==
  /\ PointsAtExitedZero
  /\ gitResult.stdout = "a\nb\n"
  /\ result = Returned(ArrayValue(<<"a", "b">>))


\* the lines of a text that carry the ref
LinesOfRef(lines, ref) ==
  {j \in DOMAIN lines : HasSeparator(lines[j]) /\ RefOf(lines[j]) = ref}
LastOf(indices) == CHOOSE j \in indices : \A k \in indices : k <= j

\* C16: in mergedInto, when a canonical ref (other than the base branch's)
\* is on several lines, the call returns and the map holds for that ref the
\* sha of the last of these lines.
C16_LastDuplicateWins ==
  MergedExitedZero =>
    /\ result.kind = "returned"
    /\ LET lines == TerminatedLines(gitResult.stdout)
           map == result.value.map IN
       \A i \in DOMAIN lines :
         (HasSeparator(lines[i])
            /\ RefOf(lines[i]) # "refs/heads/" \o input.name
            /\ Cardinality(LinesOfRef(lines, RefOf(lines[i]))) >= 2) =>
           /\ RefOf(lines[i]) \in DOMAIN map
           /\ map[RefOf(lines[i])] =
                ShaOf(lines[LastOf(LinesOfRef(lines, RefOf(lines[i])))])

C16_Witness ==
  /\ MergedExitedZero /\ result.kind = "returned"
  /\ gitResult.stdout =
       "1" \o NUL \o "refs/heads/f\n" \o "3" \o NUL \o "refs/heads/f\n"
  /\ result.value.map = [k \in {"refs/heads/f"} |-> "3"]


\* ------------------------------------------------------------------------
\* More properties of deleteBranch
\* ------------------------------------------------------------------------
\* C17: when includeRemote is false or the branch has no remote, delete makes
\* no network-argument resolution, no url resolution, no push and no
\* deleteRef, and it returns true as soon as the local step, if there is
\* one, has succeeded.
C17_RemoteOnlyWhenAsked ==
  (op = "deleteBranch"
     /\ (~input.includeRemote \/ input.branch.remote = NULL)) =>
    /\ Indices(IsRemoteStep) = {}
    /\ \A i \in DOMAIN calls : IsLocalDelete(calls[i])
    /\ (input.branch.type = "Local" /\ Len(calls) >= 1 /\ calls[1].exit = 0) =>
         pc = "done" /\ result = Returned(TrueValue)
    /\ (input.branch.type # "Local" /\ pc # "L83") =>
         pc = "done" /\ result = Returned(TrueValue)

C17_Witness ==
  /\ op = "deleteBranch" /\ pc = "done"
  /\ ~input.includeRemote /\ input.branch.remote = "origin"
  /\ input.branch.type = "Local"
  /\ Len(calls) = 1 /\ IsLocalDelete(calls[1]) /\ calls[1].exit = 0
  /\ result = Returned(TrueValue)

\* C18: within one invocation of delete, deleteRef is called at most once
\* and only right after a push classified "branch deletion failed"; after a
\* push that exited 0 it is never called.
C18_RefDeletionOnlyAfterGonePush ==
  op = "deleteBranch" =>
    /\ Cardinality(Indices(IsRefDelete)) <= 1
    /\ \A j \in Indices(IsRefDelete) :
         j > 1 /\ IsGonePush(calls[j - 1])
    /\ \A i \in Indices(IsPush) :
         calls[i].exit = 0 =>
           /\ Indices(IsRefDelete) = {}
           /\ pc = "done"
           /\ result = Returned(TrueValue)

C18_Witness ==
  /\ op = "deleteBranch" /\ pc = "done"
  /\ Indices(IsPush) # {}
  /\ IsPush(calls[Len(calls)]) /\ calls[Len(calls)].exit = 0
  /\ Indices(IsRefDelete) = {}
  /\ result = Returned(TrueValue)


RemoteBranchDelete == op = "deleteBranch" /\ input.branch.type = "Remote"

\* C19: delete never issues the local deletion for a branch of type Remote;
\* on a Remote branch with includeRemote false it calls nothing, its step
\* leaves the refs as they are, and it returns true.
C19_RemoteBranchKeptLocally ==
  /\ [](RemoteBranchDelete =>
          /\ Indices(IsLocalDelete) = {}
          /\ ~input.includeRemote =>
               /\ calls = <<>>
               /\ pc # "L83" => pc = "done" /\ result = Returned(TrueValue))
  /\ [][(RemoteBranchDelete /\ ~input.includeRemote /\ pc = "L83"
           /\ pc' # "L83") =>
          (refs' = refs /\ calls' = <<>> /\ result' = Returned(TrueValue))]_vars

C19_Witness ==
  /\ RemoteBranchDelete /\ ~input.includeRemote
  /\ pc = "done"
  /\ calls = <<>>
  /\ result = Returned(TrueValue)


\* the number of newline characters of a text
RECURSIVE Newlines(_)
Newlines(text) ==
  IF text = "" THEN 0
  ELSE (IF SubSeq(text, 1, 1) = "\n" THEN 1 ELSE 0)
         + Newlines(SubSeq(text, 2, Len(text)))

\* C20: on exit code 0 pointedAt returns as many names as stdout has
\* newlines; the names are the newline-terminated ones, so for a non-empty
\* stdout that does not end with a newline the text after the last newline
\* is not in the result.
C20_UnterminatedNameDropped ==
  PointsAtExitedZero =>
    /\ result.kind = "returned"
    /\ result.value.tag = "Array"
    /\ LET names == result.value.items
           stdout == gitResult.stdout
           kept == Terminated(names) IN
       /\ Len(names) = Newlines(stdout)
       /\ Len(kept) <= Len(stdout)
       /\ SubSeq(stdout, 1, Len(kept)) = kept
       /\ Newlines(SubSeq(stdout, Len(kept) + 1, Len(stdout))) = 0
       /\ (stdout # "" /\ ~EndsWithNewline(stdout)) => Len(kept) < Len(stdout)

C20_Witness ==
  /\ PointsAtExitedZero
  /\ gitResult.stdout = "a\nb"
  /\ result = Returned(ArrayValue(<<"a">>))

====
